---- MODULE Spec2Model ----
(***************************************************************************)
(* A model of code_quality_scanner.py: the run_analysis pipeline of        *)
(* CodeQualityScanner (repository initialisation, author bucketing,        *)
(* per-author aggregation, the two scoring passes, report and export) and  *)
(* the pure functions of MetricsCalculator.                                *)
(*                                                                         *)
(* Numbers.  Python floats that carry scores are modelled as exact         *)
(* integers counted in hundredths (57.14 is 5714): every stored score is   *)
(* the result of round(x, 2).  Ratios are kept as exact fractions and      *)
(* compared by cross-multiplication.  For the line counts of this model    *)
(* the exact and the IEEE-754 evaluation agree (no total/avg ratio lies    *)
(* within rounding error of a tier threshold without being equal to it,    *)
(* and no score lies on a rounding tie unless total_lines is a multiple    *)
(* of 128).                                                                *)
(*                                                                         *)
(* Text.  A string is a sequence of one-character strings.                 *)
(***************************************************************************)
EXTENDS Integers, Sequences, FiniteSets

VARIABLES
    history,            \* the repository backend: the commits iter_commits yields
    pc,                 \* position of run_analysis
    repo,               \* GitRepository.repo: "None" or "Repo"
    commits_by_author,  \* the ordered dict returned by get_commits_by_author_and_time
    results,            \* run_analysis: results
    all_total_lines,    \* run_analysis: all_total_lines
    avg_lines,          \* run_analysis: avg_lines, the fraction num/den
    cursor,             \* run_analysis: position of the second loop in results
    frame,              \* locals of the last _analyze_author_code call
    report,             \* run_analysis: report
    excel,              \* rows handed to the spreadsheet export, per invocation
    retval,             \* the value run_analysis returned
    args,               \* SpecCalc: the arguments of a MetricsCalculator call
    rets                \* SpecCalc: what the call returned

vars == <<history, pc, repo, commits_by_author, results, all_total_lines,
          avg_lines, cursor, frame, report, excel, retval, args, rets>>

pipeline_vars == <<history, pc, repo, commits_by_author, results, all_total_lines,
                   avg_lines, cursor, frame, report, excel, retval>>

(***************************************************************************)
(* Bounds of the model.                                                    *)
(***************************************************************************)
MaxCommits == 2
MaxIssues == 3
MaxLines == 60
MaxTotal == 5
MaxCohort == 2
MaxNest == 6

(***************************************************************************)
(* Generic helpers.                                                        *)
(***************************************************************************)
RECURSIVE SumSeq(_)
SumSeq(s) == IF s = <<>> THEN 0 ELSE s[1] + SumSeq(Tail(s))

RECURSIVE Concat(_)
Concat(ss) == IF ss = <<>> THEN <<>> ELSE ss[1] \o Concat(Tail(ss))

SeqsUpTo(S, n) == UNION {[1..k -> S] : k \in 0..n}

Max(a, b) == IF a >= b THEN a ELSE b

\* str.startswith
StartsWith(s, prefix) ==
    /\ Len(s) >= Len(prefix)
    /\ SubSeq(s, 1, Len(prefix)) = prefix

\* the Python operator `sub in s` on strings
IsSubstring(sub, s) ==
    \E i \in 0..Len(s) : i + Len(sub) <= Len(s) /\ SubSeq(s, i + 1, i + Len(sub)) = sub

\* round(num/den, 0) for num >= 0, den > 0: to nearest, ties to even
RoundHalfEven(num, den) ==
    LET q == num \div den
        r == num % den
    IN  IF 2 * r < den THEN q
        ELSE IF 2 * r > den THEN q + 1
        ELSE IF q % 2 = 0 THEN q ELSE q + 1

(***************************************************************************)
(* The repository backend: what GitPython hands to the program.            *)
(***************************************************************************)
\* Line texts of the model's patches.
TxtTodo == <<"#", "T", "O", "D", "O">>
TxtIncr == <<"+", "+", "x">>
TxtImport == <<"i", "m", "p", "o", "r", "t", " ", "x">>
TxtClass == <<"c", "l", "a", "s", "s", " ", "x">>
TxtAssign == <<"x", "=", "1">>
TxtHunk == <<"@", "@">>
TxtNewFile == <<"+", "+", "+", " ", "b">>
TxtOldFile == <<"-", "-", "-", " ", "a">>

\* A patch line as the backend produces it: an addition, a deletion or a
\* context line of the change, or a line of the patch's own (file header,
\* hunk header, the empty string after the last newline).
DiffLine(kind, text) == [kind |-> kind, text |-> text]

\* The text of a patch line as it stands in item.diff.
RawLine(l) ==
    CASE l.kind = "add" -> <<"+">> \o l.text
      [] l.kind = "del" -> <<"-">> \o l.text
      [] l.kind = "ctx" -> <<" ">> \o l.text
      [] OTHER -> l.text

Patch(lines) == [raises |-> FALSE, lines |-> lines]

PatchEdit ==
    Patch(<< DiffLine("meta", TxtHunk), DiffLine("del", TxtAssign), DiffLine("add", TxtTodo),
       DiffLine("ctx", TxtAssign), DiffLine("add", TxtIncr), DiffLine("meta", <<>>) >>)
PatchImport ==
    Patch(<< DiffLine("meta", TxtOldFile), DiffLine("meta", TxtNewFile),
       DiffLine("add", TxtImport), DiffLine("meta", <<>>) >>)
PatchClass ==
    Patch(<< DiffLine("meta", TxtHunk), DiffLine("add", TxtClass), DiffLine("add", TxtImport) >>)

\* What diffing a commit yields: a patch, or an exception.
DiffRaises == [raises |-> TRUE, lines |-> <<>>]
DiffOutcomes == {DiffRaises, PatchEdit, PatchImport, PatchClass}

\* What commit.stats yields: the totals, or an exception.
Stats(i, d, f) == [raises |-> FALSE, insertions |-> i, deletions |-> d, files |-> f]
StatsRaises == [raises |-> TRUE, insertions |-> 0, deletions |-> 0, files |-> 0]
StatsOutcomes == {StatsRaises, Stats(1, 3, 1), Stats(120, 20, 2)}

\* commit.author.name of the commits of the history.
NameAbc == <<"a", "b", "c">>
NameA == <<"a">>
NameC == <<"c">>
AuthorNames == {NameAbc, NameA, NameC}

\* The configured target authors (AUTHORS), in list order.
AUTHORS == << <<"a", "b">>, <<"b">> >>

Commits == [author : AuthorNames, stats : StatsOutcomes, diff : DiffOutcomes]

(***************************************************************************)
(* GitRepository                                                           *)
(***************************************************************************)
\* The test of the inner loop: does target_author match author_name?
AuthorMatches(target_author, author_name) ==
    IsSubstring(target_author, author_name) \/ IsSubstring(author_name, target_author)

\* The ordered dict as a sequence of (author, commits) items, in the order
\* the keys were first inserted.
RECURSIVE BucketAppend(_, _)
BucketAppend(buckets, commit) ==
    IF buckets = <<>> THEN << [author |-> commit.author, commits |-> <<commit>>] >>
    ELSE IF buckets[1].author = commit.author
         THEN << [buckets[1] EXCEPT !.commits = Append(@, commit)] >> \o Tail(buckets)
         ELSE << buckets[1] >> \o BucketAppend(Tail(buckets), commit)

\* Mutant: no break after a match, the remaining targets are tried too.
RECURSIVE MatchTargetsNoBreak(_, _, _, _)
MatchTargetsNoBreak(authors, k, commit, buckets) ==
    IF k > Len(authors) THEN buckets
    ELSE MatchTargetsNoBreak(authors, k + 1, commit,
                             IF AuthorMatches(authors[k], commit.author)
                             THEN BucketAppend(buckets, commit)
                             ELSE buckets)

\* The inner loop over the targets, from target k on: at the first target
\* that matches, the commit is appended to its author's list and the loop
\* breaks.
RECURSIVE MatchTargets(_, _, _, _)
MatchTargets(authors, k, commit, buckets) ==
    IF k > Len(authors) THEN buckets
    ELSE IF AuthorMatches(authors[k], commit.author)
         THEN BucketAppend(buckets, commit)
         ELSE MatchTargets(authors, k + 1, commit, buckets)

\* The outer loop over the commits iter_commits yields.
RECURSIVE GroupCommits(_, _, _)
GroupCommits(authors, commits, buckets) ==
    IF commits = <<>> THEN buckets
    ELSE GroupCommits(authors, Tail(commits), MatchTargets(authors, 1, commits[1], buckets))

get_commits_by_author_and_time(rp, authors, commits) ==
    IF rp = "None" THEN <<>> ELSE GroupCommits(authors, commits, <<>>)

\* try: the raw lines of every item of the diff; except: []
get_commit_diff_content(commit) ==
    IF commit.diff.raises THEN <<>>
    ELSE [i \in 1..Len(commit.diff.lines) |-> RawLine(commit.diff.lines[i])]

(***************************************************************************)
(* CodeQualityAnalyzer                                                     *)
(***************************************************************************)
Letters ==
    {"a", "b", "c", "d", "e", "f", "h", "i", "k", "l", "m", "o", "p", "r", "s", "t", "x",
     "A", "C", "D", "E", "F", "H", "I", "K", "M", "O", "T", "X"}
Whitespace == {" "}

\* re.IGNORECASE, on the letters of the patterns' keywords
Upper(c) ==
    CASE c = "t" -> "T" [] c = "o" -> "O" [] c = "d" -> "D" [] c = "f" -> "F"
      [] c = "i" -> "I" [] c = "x" -> "X" [] c = "m" -> "M" [] c = "e" -> "E"
      [] c = "h" -> "H" [] c = "a" -> "A" [] c = "c" -> "C" [] c = "k" -> "K"
      [] OTHER -> c
UpperStr(s) == [i \in 1..Len(s) |-> Upper(s[i])]

RECURSIVE LStrip(_)
LStrip(s) == IF s # <<>> /\ s[1] \in Whitespace THEN LStrip(Tail(s)) ELSE s

\* r'^\s*#.*<word>.*$' on one line
MarkerComment(line, word) ==
    /\ StartsWith(LStrip(line), <<"#">>)
    /\ IsSubstring(word, UpperStr(LStrip(line)))

\* r'^[a-z]+[A-Z]' on one line: under re.IGNORECASE, two leading letters
MixedCase(line) == Len(line) >= 2 /\ line[1] \in Letters /\ line[2] \in Letters

\* The matches of quality_patterns in one line.  The patterns that cannot
\* match the line texts of this model (no line is 20 characters long, holds
\* a call, an assignment with spaces, leading or trailing white space or a
\* colon) contribute no match and are left out.
LineIssues(line) ==
      (IF MarkerComment(line, <<"T", "O", "D", "O">>) THEN 1 ELSE 0)
    + (IF MarkerComment(line, <<"F", "I", "X", "M", "E">>) THEN 1 ELSE 0)
    + (IF MarkerComment(line, <<"H", "A", "C", "K">>) THEN 1 ELSE 0)
    + (IF MixedCase(line) THEN 1 ELSE 0)

\* sum(quality_issues.values()) of analyze_code_content(code_lines)
analyze_code_content(code_lines) ==
    SumSeq([i \in 1..Len(code_lines) |-> LineIssues(code_lines[i])])

\* any(keyword in line for keyword in ['def ', 'class ', 'import '])
LooksLikePython(line) ==
    \/ IsSubstring(<<"d", "e", "f", " ">>, line)
    \/ IsSubstring(<<"c", "l", "a", "s", "s", " ">>, line)
    \/ IsSubstring(<<"i", "m", "p", "o", "r", "t", " ">>, line)

\* A node of the syntax tree ast.parse returns: its class and the nodes
\* ast.iter_child_nodes yields for it, in order.  Nodes that are neither
\* tested by isinstance in the analyzer nor statements holding statements
\* (names, constants, pass) are left out.
AstNode(type, children) == [type |-> type, children |-> children]

\* ast.walk(node): a queue that starts with the node; each node popped from
\* the left is yielded and its children are appended.
RECURSIVE WalkQueue(_)
WalkQueue(todo) ==
    IF todo = <<>> THEN <<>>
    ELSE <<Head(todo)>> \o WalkQueue(Tail(todo) \o Head(todo).children)

walk(node) == WalkQueue(<<node>>)

\* _calculate_complexity(node): 1 plus one for each If, For, While, Try and
\* ExceptHandler that ast.walk(node) yields.
_calculate_complexity(node) ==
    LET nodes == walk(node)
    IN  1 + Cardinality({ i \in DOMAIN nodes :
              nodes[i].type \in {"If", "For", "While", "Try", "ExceptHandler"} })

\* The isinstance test of _calculate_nesting_depth.
NestingTypes == {"For", "While", "If", "Try"}

\* _calculate_nesting_depth(node, depth): the loop runs over the direct
\* children; only a child that is a For, While, If or Try is descended into.
RECURSIVE NestingDepthOver(_, _, _)
RECURSIVE _calculate_nesting_depth(_, _)
NestingDepthOver(children, depth, max_depth) ==
    IF children = <<>> THEN max_depth
    ELSE LET child == Head(children)
         IN  IF child.type \in NestingTypes
             THEN NestingDepthOver(Tail(children), depth,
                      Max(max_depth, _calculate_nesting_depth(child, depth + 1)))
             ELSE NestingDepthOver(Tail(children), depth, max_depth)

_calculate_nesting_depth(node, depth) == NestingDepthOver(node.children, depth, depth)

NoSyntaxIssues == [high_complexity |-> 0, deep_nesting |-> 0, syntax_error |-> 0]

\* The loop of analyze_python_syntax over ast.walk(tree): the counters of
\* the functions found too complex and of the constructs found too deep.
WalkIssues(tree) ==
    LET nodes == walk(tree)
    IN  [ high_complexity |->
              Cardinality({ i \in DOMAIN nodes :
                  /\ nodes[i].type = "FunctionDef"
                  /\ _calculate_complexity(nodes[i]) > 10 }),
          deep_nesting |->
              Cardinality({ i \in DOMAIN nodes :
                  /\ nodes[i].type \in {"For", "While", "If"}
                  /\ _calculate_nesting_depth(nodes[i], 0) > 3 }),
          syntax_error |-> 0 ]

\* analyze_python_syntax on a blob: ast.parse either returns the tree of the
\* blob or raises SyntaxError, and then only the syntax error is counted.
SyntaxIssues(blob) ==
    IF blob.parses THEN WalkIssues(blob.tree)
    ELSE [NoSyntaxIssues EXCEPT !.syntax_error = 1]

\* ast.parse on the lines of this model: an import statement is a statement
\* of its own, a class header without colon and body is a syntax error.
ParsesAsModule(lines) == \A i \in 1..Len(lines) : lines[i] = TxtImport

\* The tree of a blob of import statements: a Module of Import nodes.
ModuleOfImports(lines) ==
    AstNode("Module", [i \in 1..Len(lines) |-> AstNode("Import", <<>>)])

\* sum(syntax_issues.values()) of analyze_python_syntax(code_content): one
\* syntax error when the blob does not parse; a module of import statements
\* holds no function and no if, for or while, so nothing is flagged.
analyze_python_syntax(lines) ==
    LET issues == SyntaxIssues([ parses |-> ParsesAsModule(lines),
                                 tree |-> ModuleOfImports(lines) ])
    IN  issues.high_complexity + issues.deep_nesting + issues.syntax_error

(***************************************************************************)
(* CodeQuantityAnalyzer                                                    *)
(***************************************************************************)
\* The loop body: a commit whose stats raise is skipped (except: continue).
StatOf(commit, field) == IF commit.stats.raises THEN 0 ELSE commit.stats[field]

\* Mutant: the total leaves out the deletions.
commit_quantity_insertions_total(commits) ==
    LET total_insertions == SumSeq([i \in 1..Len(commits) |-> StatOf(commits[i], "insertions")])
        total_deletions == SumSeq([i \in 1..Len(commits) |-> StatOf(commits[i], "deletions")])
        total_files_changed == SumSeq([i \in 1..Len(commits) |-> StatOf(commits[i], "files")])
    IN  [ commits |-> Len(commits),
          insertions |-> total_insertions,
          deletions |-> total_deletions,
          net_lines |-> total_insertions - total_deletions,
          files_changed |-> total_files_changed,
          total_lines |-> total_insertions ]

analyze_commit_quantity(commits) ==
    LET total_insertions == SumSeq([i \in 1..Len(commits) |-> StatOf(commits[i], "insertions")])
        total_deletions == SumSeq([i \in 1..Len(commits) |-> StatOf(commits[i], "deletions")])
        total_files_changed == SumSeq([i \in 1..Len(commits) |-> StatOf(commits[i], "files")])
    IN  [ commits |-> Len(commits),
          insertions |-> total_insertions,
          deletions |-> total_deletions,
          net_lines |-> total_insertions - total_deletions,
          files_changed |-> total_files_changed,
          total_lines |-> total_insertions + total_deletions ]

(***************************************************************************)
(* MetricsCalculator                                                       *)
(***************************************************************************)
\* Scores in hundredths.
Points(n) == 100 * n

\* Mutant: the score is not floored at 0.
quality_metrics_unfloored(total_issues, total_lines) ==
    IF total_lines = 0
    THEN [issues_per_kloc |-> 0, issue_rate_per_kloc |-> 0, quality_score |-> Points(100)]
    ELSE [ issues_per_kloc |-> RoundHalfEven(100000 * total_issues, total_lines),
           issue_rate_per_kloc |-> RoundHalfEven(100000 * total_issues, total_lines),
           quality_score |->
               Points(100) - RoundHalfEven(200000 * total_issues, total_lines) ]

\* Mutant: no guard for an author without changed lines.
quality_metrics_unguarded(total_issues, total_lines) ==
    LET lines == Max(total_lines, 1)
    IN  [ issues_per_kloc |-> RoundHalfEven(100000 * total_issues, lines),
          issue_rate_per_kloc |-> RoundHalfEven(100000 * total_issues, lines),
          quality_score |->
              IF 100 * lines - 2000 * total_issues <= 0 THEN 0
              ELSE RoundHalfEven(100 * (100 * lines - 2000 * total_issues), lines) ]

\* issues_per_kloc = total_issues / total_lines * 1000, both figures rounded
\* to 2 places; quality_score = round(max(0, 100 - issues_per_kloc * 2), 2)
calculate_quality_metrics(total_issues, total_lines) ==
    IF total_lines = 0
    THEN [issues_per_kloc |-> 0, issue_rate_per_kloc |-> 0, quality_score |-> Points(100)]
    ELSE [ issues_per_kloc |-> RoundHalfEven(100000 * total_issues, total_lines),
           issue_rate_per_kloc |-> RoundHalfEven(100000 * total_issues, total_lines),
           quality_score |->
               IF 100 * total_lines - 2000 * total_issues <= 0 THEN 0
               ELSE RoundHalfEven(100 * (100 * total_lines - 2000 * total_issues),
                                  total_lines) ]

\* avg_lines is the fraction avg.num / avg.den; ratio = total_lines / avg_lines
\* is total_lines * avg.den / avg.num, compared with each threshold exactly.
RatioAtLeast(total_lines, avg, tnum, tden) ==
    total_lines * avg.den * tden >= tnum * avg.num

\* Mutant: the thresholds are exclusive (ratio > threshold).
RatioAbove(total_lines, avg, tnum, tden) ==
    total_lines * avg.den * tden > tnum * avg.num

quantity_score_exclusive(total_lines, avg) ==
    IF avg.num = 0 THEN Points(50)
    ELSE IF RatioAbove(total_lines, avg, 2, 1) THEN Points(100)
    ELSE IF RatioAbove(total_lines, avg, 3, 2) THEN Points(90)
    ELSE IF RatioAbove(total_lines, avg, 1, 1) THEN Points(80)
    ELSE IF RatioAbove(total_lines, avg, 4, 5) THEN Points(70)
    ELSE IF RatioAbove(total_lines, avg, 3, 5) THEN Points(60)
    ELSE IF RatioAbove(total_lines, avg, 2, 5) THEN Points(50)
    ELSE IF RatioAbove(total_lines, avg, 1, 5) THEN Points(40)
    ELSE Points(30)

calculate_quantity_score(total_lines, avg) ==
    IF avg.num = 0 THEN Points(50)
    ELSE IF RatioAtLeast(total_lines, avg, 2, 1) THEN Points(100)
    ELSE IF RatioAtLeast(total_lines, avg, 3, 2) THEN Points(90)
    ELSE IF RatioAtLeast(total_lines, avg, 1, 1) THEN Points(80)
    ELSE IF RatioAtLeast(total_lines, avg, 4, 5) THEN Points(70)
    ELSE IF RatioAtLeast(total_lines, avg, 3, 5) THEN Points(60)
    ELSE IF RatioAtLeast(total_lines, avg, 2, 5) THEN Points(50)
    ELSE IF RatioAtLeast(total_lines, avg, 1, 5) THEN Points(40)
    ELSE Points(30)

\* Mutant: the two weights are swapped.
final_score_swapped(quality_score, quantity_score) ==
    RoundHalfEven(2 * quality_score + 8 * quantity_score, 10)

\* round(quality_score * 0.8 + quantity_score * 0.2, 2)
calculate_final_score(quality_score, quantity_score) ==
    RoundHalfEven(8 * quality_score + 2 * quantity_score, 10)

(***************************************************************************)
(* CodeQualityScanner                                                      *)
(***************************************************************************)
\* line.startswith('+') and not line.startswith('+++')
IsNewLine(line) == StartsWith(line, <<"+">>) /\ ~StartsWith(line, <<"+", "+", "+">>)

\* new_lines = [line[1:] for line in diff_lines if ...]
NewLines(diff_lines) ==
    LET kept == SelectSeq(diff_lines, IsNewLine)
    IN  [i \in 1..Len(kept) |-> Tail(kept[i])]

\* Mutant: a diff that raises ends the author's loop with nothing collected.
CollectCodeLinesAborting(commits) ==
    IF \E i \in 1..Len(commits) : commits[i].diff.raises THEN <<>>
    ELSE Concat([i \in 1..Len(commits) |-> NewLines(get_commit_diff_content(commits[i]))])

\* The loop over the author's commits: all_code_lines.extend(new_lines)
CollectCodeLines(commits) ==
    Concat([i \in 1..Len(commits) |-> NewLines(get_commit_diff_content(commits[i]))])

\* total_issues: 0 when no line was added; else the detector's matches, plus
\* the syntax issues of the lines that look like Python, when there are any.
CountIssues(all_code_lines) ==
    IF all_code_lines = <<>> THEN 0
    ELSE LET python_code == SelectSeq(all_code_lines, LooksLikePython)
         IN  analyze_code_content(all_code_lines)
             + (IF python_code # <<>> THEN analyze_python_syntax(python_code) ELSE 0)

\* The locals of _analyze_author_code that its result is made from.
AuthorFrame(author, commits) ==
    LET all_code_lines == CollectCodeLines(commits)
    IN  [ author |-> author,
          commits |-> commits,
          quantity_metrics |-> analyze_commit_quantity(commits),
          all_code_lines |-> all_code_lines,
          total_issues |-> CountIssues(all_code_lines) ]

\* The result dict of _analyze_author_code.
AuthorResult(fr) ==
    LET total_lines == fr.quantity_metrics.total_lines
        quality_metrics == calculate_quality_metrics(fr.total_issues, total_lines)
    IN  [ contributor |-> fr.author,
          commits |-> fr.quantity_metrics.commits,
          total_lines |-> total_lines,
          total_issues |-> fr.total_issues,
          issues_per_kloc |-> quality_metrics.issues_per_kloc,
          issue_rate_per_kloc |-> quality_metrics.issue_rate_per_kloc,
          quality_score |-> quality_metrics.quality_score,
          quantity_score |-> 0,
          final_score |-> 0 ]

\* Mutant: the sum of the totals is not divided by their number.
AverageUndivided(totals) == [num |-> SumSeq(totals), den |-> 1]

\* avg_lines = sum(all_total_lines) / len(all_total_lines) if all_total_lines else 0
Average(totals) ==
    IF totals # <<>> THEN [num |-> SumSeq(totals), den |-> Len(totals)]
    ELSE [num |-> 0, den |-> 1]

\* Mutant: the second pass also overwrites the quality score.
UpdatedResultClobbering(result, avg) ==
    LET quantity_score == calculate_quantity_score(result.total_lines, avg)
    IN  [result EXCEPT !.quantity_score = quantity_score,
                       !.quality_score = quantity_score,
                       !.final_score = calculate_final_score(result.quality_score,
                                                             quantity_score)]

\* The body of the second loop, on one result.
UpdatedResult(result, avg) ==
    LET quantity_score == calculate_quantity_score(result.total_lines, avg)
    IN  [result EXCEPT !.quantity_score = quantity_score,
                       !.final_score = calculate_final_score(result.quality_score,
                                                             quantity_score)]

\* generate_report_table: the fixed text when there is no result, else one
\* row per result, in order.
generate_report_table(rs) ==
    IF rs = <<>> THEN [status |-> "no_data", rows |-> <<>>]
    ELSE [status |-> "table", rows |-> rs]

NoFrame ==
    [ author |-> <<>>, commits |-> <<>>, quantity_metrics |-> analyze_commit_quantity(<<>>),
      all_code_lines |-> <<>>, total_issues |-> 0 ]
NoText == [status |-> "none", rows |-> <<>>]
NoArgs ==
    [fn |-> "none", total_issues |-> 0, more_issues |-> 0, total_lines |-> 0,
     avg |-> [num |-> 0, den |-> 1]]
NoRets ==
    [ called |-> FALSE, metrics |-> calculate_quality_metrics(0, 0),
      more_metrics |-> calculate_quality_metrics(0, 0), score |-> 0 ]

Init ==
    /\ history \in SeqsUpTo(Commits, MaxCommits)
    /\ pc = "start"
    /\ repo = "None"
    /\ commits_by_author = <<>>
    /\ results = <<>>
    /\ all_total_lines = <<>>
    /\ avg_lines = Average(<<>>)
    /\ cursor = 0
    /\ frame = NoFrame
    /\ report = NoText
    /\ excel = <<>>
    /\ retval = NoText
    /\ args = NoArgs
    /\ rets = NoRets

\* initialize_repo fails (the path is missing, holds no .git, or git.Repo
\* raises): run_analysis returns the failure text.
InitializeRepoFails ==
    /\ pc = "start"
    /\ \E cause \in {"no_path", "no_git_dir", "raises"} :
           retval' = [status |-> "init_failed", rows |-> <<>>]
    /\ pc' = "done"
    /\ UNCHANGED <<history, repo, commits_by_author, results, all_total_lines,
                   avg_lines, cursor, frame, report, excel, args, rets>>

\* initialize_repo succeeds.
InitializeRepo ==
    /\ pc = "start"
    /\ repo' = "Repo"
    /\ pc' = "commits"
    /\ UNCHANGED <<history, commits_by_author, results, all_total_lines,
                   avg_lines, cursor, frame, report, excel, retval, args, rets>>

\* Mutant: the empty result is not tested.
NoCommitsUnchecked(buckets) == FALSE

\* if not commits_by_author
NoCommits(buckets) == buckets = <<>>

\* The commits are bucketed by author; with no bucket run_analysis returns
\* the "no commits" text.
GetCommits ==
    /\ pc = "commits"
    /\ commits_by_author' = get_commits_by_author_and_time(repo, AUTHORS, history)
    /\ IF NoCommits(commits_by_author')
       THEN /\ retval' = [status |-> "no_commits", rows |-> <<>>]
            /\ pc' = "done"
       ELSE /\ retval' = retval
            /\ pc' = "analyze"
    /\ UNCHANGED <<history, repo, results, all_total_lines, avg_lines, cursor,
                   frame, report, excel, args, rets>>

\* One turn of the first loop: the next author is analysed.
AnalyzeAuthor ==
    /\ pc = "analyze"
    /\ Len(results) < Len(commits_by_author)
    /\ LET item == commits_by_author[Len(results) + 1]
           fr == AuthorFrame(item.author, item.commits)
           result == AuthorResult(fr)
       IN  /\ frame' = fr
           /\ results' = Append(results, result)
           /\ all_total_lines' = Append(all_total_lines, result.total_lines)
    /\ UNCHANGED <<history, pc, repo, commits_by_author, avg_lines, cursor,
                   report, excel, retval, args, rets>>

\* After the first loop: the average over the authors.
ComputeAverage ==
    /\ pc = "analyze"
    /\ Len(results) = Len(commits_by_author)
    /\ avg_lines' = Average(all_total_lines)
    /\ cursor' = 1
    /\ pc' = "update"
    /\ UNCHANGED <<history, repo, commits_by_author, results, all_total_lines,
                   frame, report, excel, retval, args, rets>>

\* One turn of the second loop: the quantity and final score of one result.
UpdateScores ==
    /\ pc = "update"
    /\ cursor <= Len(results)
    /\ results' = [results EXCEPT ![cursor] = UpdatedResult(@, avg_lines)]
    /\ cursor' = cursor + 1
    /\ UNCHANGED <<history, pc, repo, commits_by_author, all_total_lines, avg_lines,
                   frame, report, excel, retval, args, rets>>

\* After the second loop: the report is generated and printed.
GenerateReport ==
    /\ pc = "update"
    /\ cursor > Len(results)
    /\ report' = generate_report_table(results)
    /\ pc' = "export"
    /\ UNCHANGED <<history, repo, commits_by_author, results, all_total_lines,
                   avg_lines, cursor, frame, excel, retval, args, rets>>

\* _save_report_to_excel is called with the results; whether the file is
\* written or the write raises (and is caught), run_analysis returns the
\* report.
SaveReportToExcel ==
    /\ pc = "export"
    /\ \E written \in BOOLEAN :
           excel' = Append(excel, [written |-> written, rows |-> results])
    /\ retval' = report
    /\ pc' = "done"
    /\ UNCHANGED <<history, repo, commits_by_author, results, all_total_lines,
                   avg_lines, cursor, frame, report, args, rets>>

Next ==
    \/ InitializeRepoFails
    \/ InitializeRepo
    \/ GetCommits
    \/ AnalyzeAuthor
    \/ ComputeAverage
    \/ UpdateScores
    \/ GenerateReport
    \/ SaveReportToExcel

Spec == Init /\ [][Next]_vars

(***************************************************************************)
(* The functions of MetricsCalculator on their own: the arguments are      *)
(* drawn by the initial state and a call stores what it returns.           *)
(***************************************************************************)
QualityArgs ==
    { [fn |-> "quality", total_issues |-> i, more_issues |-> j, total_lines |-> l,
       avg |-> [num |-> 0, den |-> 1]] :
          i \in 0..MaxIssues, j \in 0..MaxIssues, l \in 0..MaxLines }

QuantityArgs ==
    { [fn |-> "quantity", total_issues |-> 0, more_issues |-> 0, total_lines |-> l,
       avg |-> [num |-> n, den |-> d]] :
          l \in 0..MaxTotal, n \in 0..MaxTotal, d \in 1..MaxCohort }

InitCalc ==
    /\ history = <<>>
    /\ pc = "calc"
    /\ repo = "None"
    /\ commits_by_author = <<>>
    /\ results = <<>>
    /\ all_total_lines = <<>>
    /\ avg_lines = Average(<<>>)
    /\ cursor = 0
    /\ frame = NoFrame
    /\ report = NoText
    /\ excel = <<>>
    /\ retval = NoText
    /\ args \in QualityArgs \cup QuantityArgs
    /\ rets = NoRets

\* calculate_quality_metrics is called for both issue counts.
CallQualityMetrics ==
    /\ pc = "calc"
    /\ args.fn = "quality"
    /\ ~rets.called
    /\ rets' = [ called |-> TRUE,
                 metrics |-> calculate_quality_metrics(args.total_issues, args.total_lines),
                 more_metrics |-> calculate_quality_metrics(args.more_issues, args.total_lines),
                 score |-> 0 ]
    /\ UNCHANGED <<pipeline_vars, args>>

\* calculate_quantity_score is called.
CallQuantityScore ==
    /\ pc = "calc"
    /\ args.fn = "quantity"
    /\ ~rets.called
    /\ rets' = [NoRets EXCEPT !.called = TRUE,
                              !.score = calculate_quantity_score(args.total_lines, args.avg)]
    /\ UNCHANGED <<pipeline_vars, args>>

NextCalc ==
    \/ CallQualityMetrics
    \/ CallQuantityScore

SpecCalc == InitCalc /\ [][NextCalc]_vars

(***************************************************************************)
(* The structural analyzer on its own: one call of analyze_python_syntax   *)
(* on a blob, under the specification SpecAst.                             *)
(***************************************************************************)
\* The statements nested along one path of a blob, outermost first.  An
\* ExceptHandler is the child of a Try and of nothing else.
SpineTypes == {"If", "For", "Try", "With", "ExceptHandler"}

Spines ==
    { sp \in SeqsUpTo(SpineTypes, MaxNest) :
        \A i \in 1..Len(sp) :
            sp[i] = "ExceptHandler" => i > 1 /\ sp[i - 1] = "Try" }

\* What the outermost statement holds before the rest of the path: nothing,
\* or a while loop with a function that loops.
SideBranches == {<<>>, <<"While", "FunctionDef", "For">>}

RECURSIVE Chain(_)
Chain(types) ==
    IF types = <<>> THEN <<>>
    ELSE <<AstNode(Head(types), Chain(Tail(types)))>>

\* The Module ast.parse returns for such a blob.
Tree(spine, side) ==
    IF spine = <<>> THEN AstNode("Module", Chain(side))
    ELSE AstNode("Module",
             <<AstNode(Head(spine), Chain(side) \o Chain(Tail(spine)))>>)

Blobs ==
    { [parses |-> TRUE, tree |-> Tree(sp, sd)] : sp \in Spines, sd \in SideBranches }
        \cup { [parses |-> FALSE, tree |-> AstNode("Module", <<>>)] }

InitAst ==
    /\ history = <<>>
    /\ pc = "syntax"
    /\ repo = "None"
    /\ commits_by_author = <<>>
    /\ results = <<>>
    /\ all_total_lines = <<>>
    /\ avg_lines = Average(<<>>)
    /\ cursor = 0
    /\ frame = NoFrame
    /\ report = NoText
    /\ excel = <<>>
    /\ retval = NoText
    /\ args \in Blobs
    /\ rets = [called |-> FALSE, issues |-> NoSyntaxIssues]

\* analyze_python_syntax is called on the blob.
CallAnalyzePythonSyntax ==
    /\ pc = "syntax"
    /\ ~rets.called
    /\ rets' = [called |-> TRUE, issues |-> SyntaxIssues(args)]
    /\ UNCHANGED <<pipeline_vars, args>>

NextAst == CallAnalyzePythonSyntax

SpecAst == InitAst /\ [][NextAst]_vars

(***************************************************************************)
(* Claims.                                                                 *)
(***************************************************************************)
\* The tier of a ratio given in tenths of total_lines * den / num: the
\* highest threshold (in tenths) the ratio reaches.
TierOfRatio(total_lines, avg) ==
    LET reached == {th \in {2, 4, 6, 8, 10, 15, 20} :
                        10 * total_lines * avg.den >= th * avg.num}
    IN  IF reached = {} THEN 30
        ELSE LET top == CHOOSE th \in reached : \A o \in reached : o <= th
             IN  CASE top = 20 -> 100 [] top = 15 -> 90 [] top = 10 -> 80
                   [] top = 8 -> 70 [] top = 6 -> 60 [] top = 4 -> 50 [] top = 2 -> 40

\* C1: for every total_lines >= 0 and avg_lines >= 0, calculate_quantity_score
\* returns one of 30, 40, 50, 60, 70, 80, 90, 100: 50 when avg_lines = 0, and
\* otherwise the tier of the highest threshold that total_lines / avg_lines
\* reaches, a ratio equal to a threshold taking that threshold's tier.  (The
\* result is a function of the two arguments alone: the call reads nothing
\* else.)
C1_QuantityTier ==
    (rets.called /\ args.fn = "quantity") =>
        /\ rets.score \in {Points(p) : p \in {30, 40, 50, 60, 70, 80, 90, 100}}
        /\ args.avg.num = 0 => rets.score = Points(50)
        /\ args.avg.num > 0 => rets.score = Points(TierOfRatio(args.total_lines, args.avg))

\* C1 witness: a ratio of exactly 0.8 (4 lines against an average of 5) got 70.
C1_Witness ==
    /\ rets.called
    /\ args.fn = "quantity"
    /\ args.avg.num > 0
    /\ 5 * args.total_lines * args.avg.den = 4 * args.avg.num
    /\ rets.score = Points(70)

\* C3: for fixed total_lines > 0 and issue counts i1 <= i2 the quality score
\* for i2 is at most the one for i1, and for every total_issues >= 0 and
\* total_lines >= 0 the quality score lies in [0, 100].
C3_QualityMonotoneBounded ==
    (rets.called /\ args.fn = "quality") =>
        /\ (args.total_lines > 0 /\ args.total_issues <= args.more_issues) =>
               rets.more_metrics.quality_score <= rets.metrics.quality_score
        /\ rets.metrics.quality_score >= 0
        /\ rets.metrics.quality_score <= Points(100)

\* C3 witness: more issues on the same lines scored strictly lower, and both
\* scores lie strictly inside the range.
C3_Witness ==
    /\ rets.called
    /\ args.fn = "quality"
    /\ args.total_lines > 0
    /\ args.total_issues < args.more_issues
    /\ rets.more_metrics.quality_score < rets.metrics.quality_score
    /\ rets.more_metrics.quality_score > 0
    /\ rets.metrics.quality_score < Points(100)

\* run_analysis has reached report generation: both loops are over.
ReportReached ==
    \/ pc = "update" /\ cursor > Len(results)
    \/ pc = "export"
    \/ pc = "done" /\ excel # <<>>

\* C2: when run_analysis reaches report generation, every record has
\* final score = round(0.8 x quality score + 0.2 x quantity score, 2) of the
\* scores stored in it, and its quantity score is the one of its total
\* changed lines against the average of the total changed lines of all
\* records.  (8q + 2Q tenths of a hundredth never end in 5, so no tie.)
C2_FinalScore ==
    ReportReached =>
        \A i \in 1..Len(results) :
            LET r == results[i]
                exact == 8 * r.quality_score + 2 * r.quantity_score
                cohort == [ num |-> SumSeq([k \in 1..Len(results) |-> results[k].total_lines]),
                            den |-> Len(results) ]
            IN  /\ 2 * (10 * r.final_score - exact) < 10
                /\ 2 * (exact - 10 * r.final_score) < 10
                /\ r.quantity_score \in {Points(p) : p \in {30, 40, 50, 60, 70, 80, 90, 100}}
                /\ cohort.num = 0 => r.quantity_score = Points(50)
                /\ cohort.num > 0 =>
                       r.quantity_score = Points(TierOfRatio(r.total_lines, cohort))

\* C2 witness: 140 changed lines with 3 issues, alone in the cohort: quality
\* 57.14, quantity 80, final 61.71.
C2_Witness ==
    /\ ReportReached
    /\ \E i \in 1..Len(results) :
           /\ results[i].total_lines = 140
           /\ results[i].total_issues = 3
           /\ results[i].quality_score = 5714
           /\ results[i].quantity_score = Points(80)
           /\ results[i].final_score = 6171

\* C4: every author record with 0 total changed lines has quality score 100
\* and 0 issues per thousand lines, whatever its issue count.
C4_ZeroLines ==
    \A i \in 1..Len(results) :
        results[i].total_lines = 0 =>
            /\ results[i].quality_score = Points(100)
            /\ results[i].issues_per_kloc = 0
            /\ results[i].issue_rate_per_kloc = 0

\* C4 witness: a record of an author whose commit stats could not be read
\* and whose added lines produced issues.
C4_Witness ==
    \E i \in 1..Len(results) :
        /\ results[i].total_lines = 0
        /\ results[i].total_issues > 0
        /\ results[i].contributor = frame.author
        /\ \A k \in 1..Len(frame.commits) : frame.commits[k].stats.raises

\* The commits of a list whose diff can be read, and those whose stats can.
DiffReadable(commits) == SelectSeq(commits, LAMBDA c : ~c.diff.raises)
StatsReadable(commits) == SelectSeq(commits, LAMBDA c : ~c.stats.raises)
FieldSum(commits, field) == SumSeq([i \in 1..Len(commits) |-> commits[i].stats[field]])

\* C5 as claimed: a commit whose diff retrieval throws contributes zero added
\* lines and zero insertions, deletions and files changed to its author's
\* aggregate; the other commits contribute as without the failure.
C5_DiffFailureZeroesStats ==
    LET intact == DiffReadable(frame.commits)
    IN  /\ frame.all_code_lines = CollectCodeLines(intact)
        /\ frame.quantity_metrics.insertions = FieldSum(StatsReadable(intact), "insertions")
        /\ frame.quantity_metrics.deletions = FieldSum(StatsReadable(intact), "deletions")
        /\ frame.quantity_metrics.files_changed = FieldSum(StatsReadable(intact), "files")

\* C5 as amended: a commit whose diff retrieval throws contributes zero added
\* lines to its author's aggregate, but it still counts as a commit and
\* still contributes its insertions, deletions and files changed whenever
\* its stats can be read (stats and diff are read independently); every
\* other commit contributes its lines and stats as without the failure.
C5_DiffFailureZeroesLines ==
    LET intact == DiffReadable(frame.commits)
        counted == StatsReadable(frame.commits)
    IN  /\ frame.all_code_lines = CollectCodeLines(intact)
        /\ frame.quantity_metrics.commits = Len(frame.commits)
        /\ frame.quantity_metrics.insertions = FieldSum(counted, "insertions")
        /\ frame.quantity_metrics.deletions = FieldSum(counted, "deletions")
        /\ frame.quantity_metrics.files_changed = FieldSum(counted, "files")
        /\ frame.quantity_metrics.total_lines
               = FieldSum(counted, "insertions") + FieldSum(counted, "deletions")

\* C5 witness: an author with two commits, the first one's diff raised while
\* its stats were read, the second one's diff gave added lines.
C5_Witness ==
    /\ Len(frame.commits) = 2
    /\ frame.commits[1].diff.raises
    /\ ~frame.commits[1].stats.raises
    /\ ~frame.commits[2].diff.raises
    /\ frame.all_code_lines # <<>>
    /\ frame.quantity_metrics.insertions >= frame.commits[1].stats.insertions
    /\ frame.commits[1].stats.insertions > 0

\* No commit of the history matches a target author.
NoTargetCommit ==
    \A i \in 1..Len(history) : \A k \in 1..Len(AUTHORS) :
        /\ ~IsSubstring(AUTHORS[k], history[i].author)
        /\ ~IsSubstring(history[i].author, AUTHORS[k])

\* C6: when repository initialisation fails, or no commit matches a target
\* author, run_analysis returns the corresponding status text with no author
\* analysed, no record created and the spreadsheet export never invoked; the
\* export is invoked only after every record got its quantity and final
\* score.
C6_ShortCircuit ==
    /\ retval.status \in {"init_failed", "no_commits"} =>
           results = <<>> /\ frame = NoFrame /\ excel = <<>>
    /\ (pc = "done" /\ repo = "None") => retval.status = "init_failed"
    /\ (pc = "done" /\ repo = "Repo" /\ NoTargetCommit) => retval.status = "no_commits"
    /\ retval.status = "no_commits" => NoTargetCommit
    /\ excel # <<>> =>
           /\ Len(excel) = 1
           /\ excel[1].rows = results
           /\ Len(results) = Len(commits_by_author)
           /\ cursor > Len(results)
           /\ \A i \in 1..Len(results) :
                  /\ results[i].quantity_score >= Points(30)
                  /\ results[i].final_score
                         = calculate_final_score(results[i].quality_score,
                                                 results[i].quantity_score)

\* C6 witness: the history holds commits, none of a target author, and
\* run_analysis has returned the "no commits" text.
C6_Witness ==
    /\ pc = "done"
    /\ history # <<>>
    /\ retval.status = "no_commits"
    /\ results = <<>>
    /\ excel = <<>>

\* C7 as claimed: every field of the QuantityMetrics is a non-negative
\* integer and total changed lines = insertions + deletions.
C7_AllNonNegative ==
    LET q == frame.quantity_metrics
    IN  /\ q.commits >= 0 /\ q.insertions >= 0 /\ q.deletions >= 0
        /\ q.net_lines >= 0 /\ q.files_changed >= 0 /\ q.total_lines >= 0
        /\ q.total_lines = q.insertions + q.deletions

\* C7 as amended: commit count, insertions, deletions, files changed and
\* total changed lines are non-negative integers, total changed lines =
\* insertions + deletions, and net lines = insertions - deletions, an
\* integer that is negative when the deletions exceed the insertions.
C7_QuantityFields ==
    LET q == frame.quantity_metrics
    IN  /\ q.commits \in Nat /\ q.insertions \in Nat /\ q.deletions \in Nat
        /\ q.files_changed \in Nat /\ q.total_lines \in Nat
        /\ q.net_lines \in Int
        /\ q.total_lines = q.insertions + q.deletions
        /\ q.net_lines = q.insertions - q.deletions
        /\ q.net_lines < 0 <=> q.deletions > q.insertions

\* C7 witness: an author whose commits delete more than they insert.
C7_Witness ==
    /\ frame.commits # <<>>
    /\ frame.quantity_metrics.net_lines < 0
    /\ frame.quantity_metrics.total_lines > 0

\* get_commits_by_author_and_time has returned the buckets.
Bucketed == repo = "Repo" /\ pc \notin {"start", "commits"}

\* The author name contains, or is contained in, at least one target name.
IsTargetName(name) ==
    \E k \in 1..Len(AUTHORS) :
        IsSubstring(AUTHORS[k], name) \/ IsSubstring(name, AUTHORS[k])

\* C8: an enumerated commit is placed in exactly one bucket if its author
\* name contains, or is contained in, at least one target name, and in no
\* bucket otherwise; it is never placed twice, even when several target names
\* match it; within a bucket the commits keep the enumeration order.  (The
\* bucket of a name then holds exactly the history's commits of that name,
\* each once, in order.)
C8_Bucketing ==
    Bucketed =>
        /\ \A i \in 1..Len(history) :
               LET name == history[i].author
                   buckets == {b \in 1..Len(commits_by_author) :
                                   commits_by_author[b].author = name}
               IN  IF IsTargetName(name)
                   THEN /\ Cardinality(buckets) = 1
                        /\ \A b \in buckets :
                               commits_by_author[b].commits
                                   = SelectSeq(history, LAMBDA c : c.author = name)
                   ELSE buckets = {}
        /\ \A b \in 1..Len(commits_by_author) :
               \E i \in 1..Len(history) : history[i].author = commits_by_author[b].author

\* C8 witness: a commit whose author name contains both target names and a
\* commit whose author name is contained in a target name, each in a bucket
\* of its own holding that one commit.
C8_Witness ==
    /\ Bucketed
    /\ Len(history) = 2
    /\ history[1].author = NameAbc
    /\ \A k \in 1..Len(AUTHORS) : IsSubstring(AUTHORS[k], NameAbc)
    /\ history[2].author = NameA
    /\ Len(commits_by_author) = 2
    /\ commits_by_author[1].commits = <<history[1]>>
    /\ commits_by_author[2].commits = <<history[2]>>

\* The fields of a record the second pass must leave alone.
FirstPassFields(r) ==
    <<r.contributor, r.commits, r.total_lines, r.total_issues, r.issues_per_kloc,
      r.issue_rate_per_kloc, r.quality_score>>

Unscored(r) == r.quantity_score = 0 /\ r.final_score = 0
Scored(r) == r.quantity_score # 0 /\ r.final_score # 0

\* C9, in every state: one record per author; while the first pass runs no
\* record has a quantity or final score; in the second pass the records
\* before the cursor are scored and the others are not; after it all are.
C9_Progress ==
    /\ \A i, j \in 1..Len(results) :
           results[i].contributor = results[j].contributor => i = j
    /\ Len(results) <= Len(commits_by_author)
    /\ pc \in {"start", "commits", "analyze"} => \A i \in 1..Len(results) : Unscored(results[i])
    /\ pc = "update" =>
           /\ Len(results) = Len(commits_by_author)
           /\ avg_lines = [ num |-> SumSeq([k \in 1..Len(results) |-> results[k].total_lines]),
                            den |-> Len(results) ]
           /\ \A i \in 1..Len(results) :
                  IF i < cursor THEN Scored(results[i]) ELSE Unscored(results[i])
    /\ pc \in {"export", "done"} => \A i \in 1..Len(results) : Scored(results[i])

\* C9, in every step: a record is created only by the first pass, at the end
\* of the list, for the next author and unscored; an existing record changes
\* only in the second pass, only the record at the cursor, which is unscored
\* before and scored after, only in its quantity and final score, and the
\* cursor then moves on; the cursor never moves back.
C9_Step ==
    /\ Len(results') # Len(results) =>
           /\ pc = "analyze" /\ pc' = "analyze"
           /\ Len(results') = Len(results) + 1
           /\ Unscored(results'[Len(results')])
           /\ results'[Len(results')].contributor
                  = commits_by_author[Len(results')].author
    /\ \A i \in 1..Len(results) :
           /\ i <= Len(results')
           /\ results'[i] # results[i] =>
                  /\ pc = "update" /\ i = cursor /\ cursor' = cursor + 1
                  /\ Unscored(results[i]) /\ Scored(results'[i])
                  /\ FirstPassFields(results'[i]) = FirstPassFields(results[i])
    /\ cursor' >= cursor
    /\ pc \in {"export", "done"} => results' = results

\* C9: each author record is created exactly once, in the first pass, with
\* quantity and final score 0; none is scored before all are created and the
\* average is computed; the second pass writes each record's quantity and
\* final score exactly once and leaves its other fields unchanged; no record
\* is modified after the second pass.
C9_Lifecycle == []C9_Progress /\ [][C9_Step]_vars

\* C9 witness: two authors' records, both scored, after the export.
C9_Witness ==
    /\ pc = "done"
    /\ Len(results) = 2
    /\ \A i \in 1..Len(results) : Scored(results[i])
    /\ results[1].quantity_score # results[2].quantity_score

\* The texts of the additions of a patch, in patch order.
AddedTexts(lines) ==
    LET adds == SelectSeq(lines, LAMBDA l : l.kind = "add")
    IN  [i \in 1..Len(adds) |-> adds[i].text]

\* C10: the added-line set of an author is, in commit order and diff order,
\* exactly the texts of the diff lines that are additions: no file header,
\* deletion, context or metadata line, and every added line whatever its
\* content, also one whose text begins with "++".
C10_AllAddedLines ==
    frame.all_code_lines
        = Concat([i \in 1..Len(frame.commits) |-> AddedTexts(frame.commits[i].diff.lines)])


\* The depth the claim speaks of: the longest run of if, for, while and try
\* statements among all descendants of a node, whatever lies between them.
RECURSIVE DescendantDepthOver(_)
RECURSIVE DescendantDepth(_)
DescendantDepthOver(children) ==
    IF children = <<>> THEN 0
    ELSE LET child == Head(children)
             below == DescendantDepth(child)
         IN  Max(IF child.type \in NestingTypes THEN 1 + below ELSE below,
                 DescendantDepthOver(Tail(children)))

DescendantDepth(node) == DescendantDepthOver(node.children)

\* The if, for and while statements of a tree whose such depth exceeds 3.
DeepConstructs(tree) ==
    LET nodes == walk(tree)
    IN  Cardinality({ i \in DOMAIN nodes :
            /\ nodes[i].type \in {"For", "While", "If"}
            /\ DescendantDepth(nodes[i]) > 3 })

\* C11: on a blob that parses, the excessive-nesting counter is the number
\* of if, for and while statements whose nesting depth over all their
\* conditional, loop and try descendants exceeds 3, also when a with block
\* or an exception handler lies between them.
C11_NestingOverDescendants ==
    (pc = "syntax" /\ rets.called /\ args.parses)
        => rets.issues.deep_nesting = DeepConstructs(args.tree)

\* What the code does count: the statements whose depth is reached through
\* an unbroken run of if, for, while and try statements, each the direct
\* child of the one before.
NestingOverUnbrokenRuns ==
    (pc = "syntax" /\ rets.called /\ args.parses)
        => /\ rets.issues.deep_nesting <= DeepConstructs(args.tree)
           /\ rets.issues.syntax_error = 0
           /\ (\A i \in DOMAIN walk(args.tree) :
                   walk(args.tree)[i].type \in NestingTypes \cup {"Module"})
                 => rets.issues.deep_nesting = DeepConstructs(args.tree)

\* C12: when both loops of run_analysis are over and there are records: if
\* the average of the total changed lines is greater than 0, the record with
\* the largest total has quantity score at least 80; if the average is 0,
\* every record has quantity score 50; a single record has quantity score 80
\* when it has changed lines and 50 when it has none.
C12_QuantityAgainstAverage ==
    (ReportReached /\ results # <<>>)
        => /\ avg_lines.num > 0 =>
                \E i \in 1..Len(results) :
                    /\ \A j \in 1..Len(results) :
                           results[j].total_lines <= results[i].total_lines
                    /\ results[i].quantity_score >= Points(80)
           /\ avg_lines.num = 0 =>
                \A i \in 1..Len(results) : results[i].quantity_score = Points(50)
           /\ Len(results) = 1 =>
                results[1].quantity_score =
                    IF results[1].total_lines > 0 THEN Points(80) ELSE Points(50)

\* Two authors of different totals have been scored: the larger one is above
\* the average, the smaller one below it.
C12_Witness ==
    /\ ReportReached
    /\ Len(results) = 2
    /\ avg_lines.num > 0
    /\ results[1].total_lines # results[2].total_lines
    /\ \E i, j \in 1..2 :
           /\ results[i].quantity_score >= Points(80)
           /\ results[j].quantity_score < Points(80)
====
